---- MODULE Spec2Model ----
(***************************************************************************)
(* Speech-to-Text Pad (script.js): the transcript state (finalText, the    *)
(* pad textOutput.value, isListening), the notes array and the smartFormat *)
(* text pipeline.  A text is a sequence of one-character strings, so that  *)
(* the regular expressions of smartFormat are computed character by        *)
(* character as the JavaScript engine computes them.  Page elements the     *)
(* script only writes and never reads back (errorArea, micIndicator,       *)
(* noteCount, the buttons' disabled flags) are outputs, not state; the     *)
(* handler that ran last is kept in `last`.                                *)
(***************************************************************************)
EXTENDS Integers, Sequences, FiniteSets, TLC

\* ------------------------------------------------------------------ bounds
\* Longest text (in characters) a result event may leave in finalText or the pad.
MaxText == 3
\* Most notes held at once.
MaxNotes == 2
\* Most results (fragments) in one onresult event.
MaxBatch == 2
\* Most tokens in an input of the smartFormat-only specification.
MaxTokens == 3

\* -------------------------------------------------------------- characters
Lowers == <<"a","b","c","d","e","f","g","h","i","j","k","l","m",
            "n","o","p","q","r","s","t","u","v","w","x","y","z">>
Uppers == <<"A","B","C","D","E","F","G","H","I","J","K","L","M",
            "N","O","P","Q","R","S","T","U","V","W","X","Y","Z">>
DigitChars == {"0","1","2","3","4","5","6","7","8","9"}

LowerSet == {"a","b","c","d","e","f","g","h","i","j","k","l","m",
             "n","o","p","q","r","s","t","u","v","w","x","y","z"}
UpperSet == {"A","B","C","D","E","F","G","H","I","J","K","L","M",
             "N","O","P","Q","R","S","T","U","V","W","X","Y","Z"}
\* [a-z]
IsLower(c) == c \in LowerSet
IsUpper(c) == c \in UpperSet
\* String.prototype.toUpperCase on one character
ToUpperCase(c) == IF IsLower(c) THEN Uppers[CHOOSE i \in 1..26 : Lowers[i] = c] ELSE c
\* the folding of the regular expressions' i flag
ToLowerCase(c) == IF IsUpper(c) THEN Lowers[CHOOSE i \in 1..26 : Uppers[i] = c] ELSE c
\* \w of a regular expression
IsWordChar(c) == IsLower(c) \/ IsUpper(c) \/ c \in DigitChars \/ c = "_"
\* \s of a regular expression, and what String.prototype.trim removes
IsSpace(c) == c \in {" ", "\t", "\n", "\r"}
\* [ \t]
IsHSpace(c) == c \in {" ", "\t"}
\* [,\.!?]
IsPunct(c) == c \in {",", ".", "!", "?"}
\* [\.\!\?]
IsStop(c) == c \in {".", "!", "?"}

MinOf(S) == CHOOSE x \in S : \A y \in S : x <= y
MaxOf(S) == CHOOSE x \in S : \A y \in S : x >= y

\* String.prototype.trim
Trim(t) ==
  LET keep == {i \in 1..Len(t) : ~IsSpace(t[i])}
  IN IF keep = {} THEN <<>> ELSE SubSeq(t, MinOf(keep), MaxOf(keep))

\* ------------------------------------------------------------- smartFormat
\* \b at the gap in front of position i (1..Len(t)+1)
WordBoundary(t, i) ==
  LET before == i > 1 /\ IsWordChar(t[i-1])
      after  == i <= Len(t) /\ IsWordChar(t[i])
  IN before # after

\* \bkw\b with the i flag matches t at position i (kw in lower case)
MatchesAt(t, i, kw) ==
  /\ ToLowerCase(t[i]) = kw[1]
  /\ i + Len(kw) - 1 <= Len(t)
  /\ \A k \in 1..Len(kw) : ToLowerCase(t[i+k-1]) = kw[k]
  /\ WordBoundary(t, i)
  /\ WordBoundary(t, i + Len(kw))

\* the alternatives of kws that match t at position i
Alternatives(t, i, kws) == {k \in 1..Len(kws) : MatchesAt(t, i, kws[k])}

\* t.replace(/\bk1\b|\bk2\b/gi, to) from position i on: the leftmost match, its
\* first matching alternative, and the scan resumes after the match
RECURSIVE ReplaceWords(_, _, _, _)
ReplaceWords(t, i, kws, to) ==
  LET starts == {j \in i..Len(t) : Alternatives(t, j, kws) # {}}
  IN IF starts = {} THEN SubSeq(t, i, Len(t))
     ELSE LET j == MinOf(starts)
              kw == kws[MinOf(Alternatives(t, j, kws))]
          IN SubSeq(t, i, j - 1) \o to \o ReplaceWords(t, j + Len(kw), kws, to)

KwComma == << <<"c","o","m","m","a">> >>
KwPeriod == << <<"p","e","r","i","o","d">>, <<"f","u","l","l"," ","s","t","o","p">> >>
KwQuestion == << <<"q","u","e","s","t","i","o","n"," ","m","a","r","k">> >>
KwExclamation ==
  << <<"e","x","c","l","a","m","a","t","i","o","n"," ","m","a","r","k">>,
     <<"e","x","c","l","a","m","a","t","i","o","n"," ","p","o","i","n","t">> >>
KwNewLine == << <<"n","e","w"," ","l","i","n","e">>, <<"n","e","w","l","i","n","e">> >>

\* subs.forEach(({ re, to }) => t = t.replace(re, to))
SubstituteKeywords(t) ==
  LET t1 == ReplaceWords(t, 1, KwComma, <<",">>)
      t2 == ReplaceWords(t1, 1, KwPeriod, <<".">>)
      t3 == ReplaceWords(t2, 1, KwQuestion, <<"?">>)
      t4 == ReplaceWords(t3, 1, KwExclamation, <<"!">>)
  IN ReplaceWords(t4, 1, KwNewLine, <<"\n">>)

\* first position from i on that does not hold a [ \t] (Len(t)+1 if none)
HRunEnd(t, i) == MinOf({j \in i..Len(t)+1 : j = Len(t) + 1 \/ ~IsHSpace(t[j])})
\* first position from i on that does not hold a \s (Len(t)+1 if none)
SRunEnd(t, i) == MinOf({j \in i..Len(t)+1 : j = Len(t) + 1 \/ ~IsSpace(t[j])})

\* t.replace(/[ \t]+([,\.!?])/g, "$1") from position i on
RECURSIVE RemoveSpaceBeforePunct(_, _)
RemoveSpaceBeforePunct(t, i) ==
  LET starts == {j \in i..Len(t) :
                   IsHSpace(t[j]) /\ HRunEnd(t, j) <= Len(t) /\ IsPunct(t[HRunEnd(t, j)])}
  IN IF starts = {} THEN SubSeq(t, i, Len(t))
     ELSE LET j == MinOf(starts)
              e == HRunEnd(t, j)
          IN SubSeq(t, i, j - 1) \o <<t[e]>> \o RemoveSpaceBeforePunct(t, e + 1)

\* t.replace(/([,\.!?])([^\s\n])/g, "$1 $2") from position i on
RECURSIVE AddSpaceAfterPunct(_, _)
AddSpaceAfterPunct(t, i) ==
  LET starts == {j \in i..Len(t) - 1 : IsPunct(t[j]) /\ ~IsSpace(t[j+1])}
  IN IF starts = {} THEN SubSeq(t, i, Len(t))
     ELSE LET j == MinOf(starts)
          IN SubSeq(t, i, j - 1) \o <<t[j], " ", t[j+1]>> \o AddSpaceAfterPunct(t, j + 2)

\* t.split("\n").map((line) => line.trim()).join("\n")
RECURSIVE TrimLines(_)
TrimLines(t) ==
  LET nl == {i \in 1..Len(t) : t[i] = "\n"}
  IN IF nl = {} THEN Trim(t)
     ELSE LET k == MinOf(nl)
          IN Trim(SubSeq(t, 1, k - 1)) \o <<"\n">> \o TrimLines(SubSeq(t, k + 1, Len(t)))

\* /[\.\!\?]\s+[a-z]/ matches t at position j
SentenceStartAt(t, j) ==
  /\ IsStop(t[j])
  /\ SRunEnd(t, j + 1) > j + 1
  /\ SRunEnd(t, j + 1) <= Len(t)
  /\ IsLower(t[SRunEnd(t, j + 1)])

\* t.replace(/(^|[\.\!\?]\s+)([a-z])/g, (m, prefix, letter) => prefix + letter.toUpperCase())
\* from position i on; ^ matches at the start of the string only (no m flag)
RECURSIVE CapitalizeSentences(_, _)
CapitalizeSentences(t, i) ==
  LET starts == {j \in i..Len(t) : (j = 1 /\ IsLower(t[1])) \/ SentenceStartAt(t, j)}
  IN IF starts = {} THEN SubSeq(t, i, Len(t))
     ELSE LET j == MinOf(starts)
              e == IF j = 1 /\ IsLower(t[1]) THEN 1 ELSE SRunEnd(t, j + 1)
          IN SubSeq(t, i, e - 1) \o <<ToUpperCase(t[e])>> \o CapitalizeSentences(t, e + 1)

\* function smartFormat(text)
smartFormat(text) ==
  IF text = <<>> THEN <<>>
  ELSE LET t1 == SubstituteKeywords(text)
           t2 == RemoveSpaceBeforePunct(t1, 1)
           t3 == AddSpaceAfterPunct(t2, 1)
           t4 == TrimLines(t3)
           t5 == CapitalizeSentences(t4, 1)
       IN Trim(t5)

\* --------------------------------------------------------------- inputs
\* Transcripts the recognition engine delivers (res[0].transcript).
TxEmpty == <<>>
TxWord == <<"a">>
TxNewLineWord == <<"n","e","w"," ","l","i","n","e"," ","a">>
FinalTranscripts == {TxEmpty, TxWord, TxNewLineWord}
InterimTranscripts == {TxEmpty, TxWord}

\* One SpeechRecognitionResult: its first alternative's transcript and isFinal.
Fragments ==
  [transcript : FinalTranscripts, isFinal : {TRUE}]
    \cup [transcript : InterimTranscripts, isFinal : {FALSE}]

\* event.results from event.resultIndex on: the results one onresult event handles.
RECURSIVE SeqsUpTo(_, _)
SeqsUpTo(S, n) ==
  IF n = 0 THEN {<<>>}
  ELSE LET shorter == SeqsUpTo(S, n - 1)
       IN shorter \cup {Append(q, x) : q \in {r \in shorter : Len(r) = n - 1}, x \in S}
Batches == SeqsUpTo(Fragments, MaxBatch)

\* new Date().toLocaleTimeString([], { hour: "2-digit", minute: "2-digit" })
TimeStrings == {"10:01"}

\* Texts the user types into the pad (the textarea is editable): white space
\* only, a word, a word with white space around it.
TyBlank == <<" ", "\n", "\t">>
TyWord == <<"a">>
TyPadded == <<" ", "b", " ">>
TypedTexts == {TyBlank, TyWord, TyPadded}

\* Inputs of the smartFormat-only specification: up to MaxTokens tokens, joined.
FormatTokens ==
  { <<"a">>, <<" ">>, <<"\n">>, <<".">>, <<",">>,
    <<"c","o","m","m","a">>, <<"n","e","w"," ","l","i","n","e">> }
RECURSIVE Flatten(_)
Flatten(q) == IF q = <<>> THEN <<>> ELSE Head(q) \o Flatten(Tail(q))
FormatInputs == {Flatten(q) : q \in SeqsUpTo(FormatTokens, MaxTokens)}

\* ----------------------------------------------------------------- state
VARIABLES
  isListening,  \* let isListening
  finalText,    \* let finalText: the accumulated transcript
  textOutput,   \* textOutput.value: the text shown in the pad
  notes,        \* let notes: sequence of [text, createdAt], head first
  rendered,     \* the note items renderNotes last built: their closures' (note, index)
  engine,       \* the SpeechRecognition session: idle, starting, running, failed
  last,         \* the handler that ran last, with its input
  fmt           \* smartFormat applied to an input, and to its own output

vars == <<isListening, finalText, textOutput, notes, rendered, engine, last, fmt>>

\* notes.forEach((note, index) => ...): the closures of one renderNotes call
renderNotes(ns) == [k \in 1..Len(ns) |-> [note |-> ns[k], index |-> k - 1]]

\* notes.splice(index, 1), index counted from 0: Array.prototype.splice clamps
\* the start into 0..length (a negative start counts from the end) and the
\* delete count into what is left from the start on
Splice(ns, index) ==
  LET start == IF index < 0 THEN MaxOf({Len(ns) + index, 0}) ELSE MinOf({index, Len(ns)})
      count == MinOf({1, Len(ns) - start})
  IN SubSeq(ns, 1, start) \o SubSeq(ns, start + count + 1, Len(ns))

\* what `last` holds: the handler, the results it was given, the note item clicked
Event(op, batch, item) == [op |-> op, batch |-> batch, item |-> item]
NoFmt == [stage |-> "off", input |-> <<>>, out |-> <<>>, again |-> <<>>]

\* the state when DOMContentLoaded has run: no session, empty pad, no notes
InitPad ==
  /\ isListening = FALSE
  /\ finalText = <<>>
  /\ textOutput = <<>>
  /\ notes = <<>>
  /\ rendered = renderNotes(<<>>)
  /\ engine = "idle"
  /\ last = Event("init", <<>>, 0)

Init == InitPad /\ fmt = NoFmt

\* ---------------------------------------------------- recognition handlers
\* recognition.onstart
OnStart ==
  /\ engine = "starting"
  /\ engine' = "running"
  /\ isListening' = TRUE
  /\ last' = Event("onstart", <<>>, 0)
  /\ UNCHANGED <<finalText, textOutput, notes, rendered, fmt>>

\* recognition.onend: fired when the session ends, whatever the reason
OnEnd ==
  /\ engine \in {"running", "failed"}
  /\ engine' = "idle"
  /\ isListening' = FALSE
  /\ finalText' = smartFormat(textOutput)
  /\ textOutput' = finalText'
  /\ last' = Event("onend", <<>>, 0)
  /\ UNCHANGED <<notes, rendered, fmt>>

\* OnError as it would be if it cleaned up the pad the way onend does
OnError_CommitsPad ==
  /\ engine \in {"starting", "running"}
  /\ engine' = "failed"
  /\ isListening' = FALSE
  /\ finalText' = smartFormat(textOutput)
  /\ last' = Event("onerror", <<>>, 0)
  /\ UNCHANGED <<textOutput, notes, rendered, fmt>>

\* recognition.onerror; the session then ends (onend follows)
OnError ==
  /\ engine \in {"starting", "running"}
  /\ engine' = "failed"
  /\ isListening' = FALSE
  /\ last' = Event("onerror", <<>>, 0)
  /\ UNCHANGED <<finalText, textOutput, notes, rendered, fmt>>

\* CommitFinal as it would be without the separating space
CommitFinal_NoSeparator(ft, transcript) ==
  smartFormat(ft \o Trim(transcript))

\* the loop body of onresult for one final result: finalText after it
CommitFinal(ft, transcript) ==
  LET piece == Trim(transcript)
  IN smartFormat(IF ft # <<>> THEN ft \o <<" ">> \o piece ELSE piece)

\* the for loop of onresult from result i on: <<finalText, interimRaw>> after it
RECURSIVE ResultLoop(_, _, _, _)
ResultLoop(batch, i, ft, interimRaw) ==
  IF i > Len(batch) THEN <<ft, interimRaw>>
  ELSE IF batch[i].isFinal
       THEN ResultLoop(batch, i + 1, CommitFinal(ft, batch[i].transcript), interimRaw)
       ELSE ResultLoop(batch, i + 1, ft, interimRaw \o batch[i].transcript)

\* let display of onresult
Display(ft, interimRaw) ==
  IF interimRaw # <<>>
  THEN smartFormat(IF ft # <<>> THEN ft \o <<" ">> \o interimRaw ELSE interimRaw)
  ELSE ft

\* OnResult as it would be if it kept what it displays as the transcript
OnResult_CommitsDisplay(batch) ==
  /\ engine = "running"
  /\ LET r == ResultLoop(batch, 1, finalText, <<>>)
     IN /\ finalText' = Display(r[1], r[2])
        /\ textOutput' = Display(r[1], r[2])
  /\ Len(finalText') <= MaxText
  /\ Len(textOutput') <= MaxText
  /\ last' = Event("onresult", batch, 0)
  /\ UNCHANGED <<isListening, notes, rendered, engine, fmt>>

\* OnResult as it would be if the newest note were a live view of the transcript
OnResult_UpdatesNote(batch) ==
  /\ engine = "running"
  /\ LET r == ResultLoop(batch, 1, finalText, <<>>)
     IN /\ finalText' = r[1]
        /\ textOutput' = Display(r[1], r[2])
  /\ Len(finalText') <= MaxText
  /\ Len(textOutput') <= MaxText
  /\ notes' = IF notes = <<>> \/ finalText' = <<>> THEN notes
              ELSE [notes EXCEPT ![1].text = finalText']
  /\ last' = Event("onresult", batch, 0)
  /\ UNCHANGED <<isListening, rendered, engine, fmt>>

\* recognition.onresult, while the session runs (also after recognition.stop(),
\* until onend)
OnResult(batch) ==
  /\ engine = "running"
  /\ LET r == ResultLoop(batch, 1, finalText, <<>>)
     IN /\ finalText' = r[1]
        /\ textOutput' = Display(r[1], r[2])
  /\ Len(finalText') <= MaxText
  /\ Len(textOutput') <= MaxText
  /\ last' = Event("onresult", batch, 0)
  /\ UNCHANGED <<isListening, notes, rendered, engine, fmt>>

\* ------------------------------------------------------------ user actions
\* function startListening; recognition.start() throws when the session is
\* not idle, and the catch swallows it
startListening ==
  /\ ~isListening
  /\ finalText' = smartFormat(Trim(textOutput))
  /\ engine' = IF engine = "idle" THEN "starting" ELSE engine
  /\ last' = Event("start", <<>>, 0)
  /\ UNCHANGED <<isListening, textOutput, notes, rendered, fmt>>

\* function stopListening; recognition.stop() asks the session to end, and
\* onend follows when it has
stopListening ==
  /\ isListening
  /\ last' = Event("stop", <<>>, 0)
  /\ UNCHANGED <<isListening, finalText, textOutput, notes, rendered, engine, fmt>>

\* resetTranscript as it would be if it forgot to empty the pad
resetTranscript_KeepsPad ==
  /\ finalText' = <<>>
  /\ last' = Event("clear", <<>>, 0)
  /\ UNCHANGED <<isListening, textOutput, notes, rendered, engine, fmt>>

\* function resetTranscript, the clearBtn click handler
resetTranscript ==
  /\ finalText' = <<>>
  /\ textOutput' = <<>>
  /\ last' = Event("clear", <<>>, 0)
  /\ UNCHANGED <<isListening, notes, rendered, engine, fmt>>

\* saveCurrentNote as it would be without the test for an empty text
saveCurrentNote_SavesBlank(now) ==
  /\ Len(notes) < MaxNotes
  /\ notes' = <<[text |-> Trim(textOutput), createdAt |-> now]>> \o notes
  /\ rendered' = renderNotes(notes')
  /\ last' = Event("save", <<>>, 0)
  /\ UNCHANGED <<isListening, finalText, textOutput, engine, fmt>>

\* saveCurrentNote as it would be with notes.push in place of notes.unshift
saveCurrentNote_Appends(now) ==
  LET text == Trim(textOutput)
  IN IF text = <<>>
     THEN /\ last' = Event("saveEmpty", <<>>, 0)
          /\ UNCHANGED <<isListening, finalText, textOutput, notes, rendered, engine, fmt>>
     ELSE /\ Len(notes) < MaxNotes
          /\ notes' = Append(notes, [text |-> text, createdAt |-> now])
          /\ rendered' = renderNotes(notes')
          /\ last' = Event("save", <<>>, 0)
          /\ UNCHANGED <<isListening, finalText, textOutput, engine, fmt>>

\* function saveCurrentNote with the clock reading now
saveCurrentNote(now) ==
  LET text == Trim(textOutput)
  IN IF text = <<>>
     THEN /\ last' = Event("saveEmpty", <<>>, 0)
          /\ UNCHANGED <<isListening, finalText, textOutput, notes, rendered, engine, fmt>>
     ELSE /\ Len(notes) < MaxNotes
          /\ notes' = <<[text |-> text, createdAt |-> now]>> \o notes
          /\ rendered' = renderNotes(notes')
          /\ last' = Event("save", <<>>, 0)
          /\ UNCHANGED <<isListening, finalText, textOutput, engine, fmt>>

\* the click handler of the k-th rendered note's "Send to pad" button
useBtnClick(k) ==
  /\ textOutput' = rendered[k].note.text
  /\ finalText' = rendered[k].note.text
  /\ last' = Event("send", <<>>, k)
  /\ UNCHANGED <<isListening, notes, rendered, engine, fmt>>

\* delBtnClick as it would be with notes.shift() in place of notes.splice(index, 1)
delBtnClick_RemovesHead(k) ==
  /\ notes' = Tail(notes)
  /\ rendered' = renderNotes(notes')
  /\ last' = Event("delete", <<>>, k)
  /\ UNCHANGED <<isListening, finalText, textOutput, engine, fmt>>

\* delBtnClick as it would be without the renderNotes() after the splice
delBtnClick_NoRender(k) ==
  /\ notes' = Splice(notes, rendered[k].index)
  /\ last' = Event("delete", <<>>, k)
  /\ UNCHANGED <<isListening, finalText, textOutput, rendered, engine, fmt>>

\* the click handler of the k-th rendered note's "Delete" button
delBtnClick(k) ==
  /\ notes' = Splice(notes, rendered[k].index)
  /\ rendered' = renderNotes(notes')
  /\ last' = Event("delete", <<>>, k)
  /\ UNCHANGED <<isListening, finalText, textOutput, engine, fmt>>

Next ==
  \/ OnStart
  \/ OnEnd
  \/ OnError
  \/ \E batch \in Batches : OnResult(batch)
  \/ startListening
  \/ stopListening
  \/ resetTranscript
  \/ \E now \in TimeStrings : saveCurrentNote(now)
  \/ \E k \in 1..Len(rendered) : useBtnClick(k)
  \/ \E k \in 1..Len(rendered) : delBtnClick(k)

Spec == Init /\ [][Next]_vars

\* ------------------------------------------- smartFormat on its own inputs
InitFormat ==
  /\ InitPad
  /\ \E s \in FormatInputs : fmt = [stage |-> "input", input |-> s, out |-> <<>>, again |-> <<>>]

\* smartFormat(input)
FormatOnce ==
  /\ fmt.stage = "input"
  /\ fmt' = [fmt EXCEPT !.stage = "once", !.out = smartFormat(fmt.input)]
  /\ UNCHANGED <<isListening, finalText, textOutput, notes, rendered, engine, last>>

\* smartFormat(smartFormat(input))
FormatAgain ==
  /\ fmt.stage = "once"
  /\ fmt' = [fmt EXCEPT !.stage = "twice", !.again = smartFormat(fmt.out)]
  /\ UNCHANGED <<isListening, finalText, textOutput, notes, rendered, engine, last>>

NextFormat == FormatOnce \/ FormatAgain

SpecFormat == InitFormat /\ [][NextFormat]_vars

\* ------------------------------------------ the notes, with a typing user
\* the user edits the pad: textOutput.value becomes what was typed
padInput(t) ==
  /\ textOutput' = t
  /\ last' = Event("input", <<>>, 0)
  /\ UNCHANGED <<isListening, finalText, notes, rendered, engine, fmt>>

\* the pad and the notes list without a recognition session
NextNotes ==
  \/ \E t \in TypedTexts : padInput(t)
  \/ resetTranscript
  \/ \E now \in TimeStrings : saveCurrentNote(now)
  \/ \E k \in 1..Len(rendered) : useBtnClick(k)
  \/ \E k \in 1..Len(rendered) : delBtnClick(k)

SpecNotes == Init /\ [][NextNotes]_vars

\* ------------------------------------------------------------------ claims
\* the results of a batch that are final / interim
NoFinal(batch) == \A i \in 1..Len(batch) : ~batch[i].isFinal
HasInterim(batch) == \E i \in 1..Len(batch) : ~batch[i].isFinal
\* the raw text of the interim results of a batch, in arrival order
RECURSIVE InterimText(_)
InterimText(batch) ==
  IF batch = <<>> THEN <<>>
  ELSE (IF Head(batch).isFinal THEN <<>> ELSE Head(batch).transcript)
         \o InterimText(Tail(batch))
\* a \o " " \o b, with no separator when a is empty
Joined(a, b) == IF a = <<>> THEN b ELSE a \o <<" ">> \o b

\* C1: an interim-only batch followed by the end of recognition leaves
\* finalText as it was before the batch (which the batch itself did not change):
\* interim text never becomes part of finalText.
C1_InterimNeverCommitted ==
  [][(last.op = "onresult" /\ NoFinal(last.batch) /\ last'.op = "onend")
       => finalText' = finalText]_vars

\* C2: in every reachable state finalText is already normalized:
\* smartFormat(finalText) = finalText.
C2_FinalTextNormalized == smartFormat(finalText) = finalText

\* C3: smartFormat is idempotent: smartFormat(smartFormat(s)) = smartFormat(s).
C3_Idempotent == fmt.stage = "twice" => fmt.again = fmt.out

\* the final results of a batch all have non-empty trimmed text
FinalsNonEmpty(batch) ==
  \A i \in 1..Len(batch) : batch[i].isFinal => Trim(batch[i].transcript) # <<>>
\* the text the claim gives after the final results of a batch, starting from a
RECURSIVE CommittedText(_, _)
CommittedText(a, batch) ==
  IF batch = <<>> THEN a
  ELSE IF Head(batch).isFinal
       THEN CommittedText(smartFormat(Joined(a, Trim(Head(batch).transcript))), Tail(batch))
       ELSE CommittedText(a, Tail(batch))

\* C4: a batch commits its final results cumulatively in arrival order: from
\* finalText = A each final result with non-empty trimmed text p makes it
\* normalize(A + " " + p), or normalize(p) when A is empty, and that is the A of
\* the next final result, of this batch and of later ones.
C4_CumulativeCommit ==
  [][(last'.op = "onresult" /\ FinalsNonEmpty(last'.batch))
       => finalText' = CommittedText(finalText, last'.batch)]_vars
\* a batch with two final results was applied: the second was committed on top
\* of the text the first had left
C4_Witness ==
  /\ last.op = "onresult"
  /\ Len(last.batch) = 2
  /\ last.batch[1].isFinal /\ last.batch[2].isFinal
  /\ FinalsNonEmpty(last.batch)
  /\ Len(finalText) = 3

\* C5: a batch with no final result (empty, or interim results only) leaves
\* finalText and the notes exactly as they were.
C5_NoFinalNoChange ==
  [][(last'.op = "onresult" /\ NoFinal(last'.batch))
       => (finalText' = finalText /\ notes' = notes)]_vars
\* an interim result is being previewed after a non-empty transcript, with a note held
C5_Witness ==
  /\ last.op = "onresult"
  /\ NoFinal(last.batch)
  /\ InterimText(last.batch) # <<>>
  /\ finalText # <<>>
  /\ textOutput # finalText
  /\ notes # <<>>

\* C6: after a batch the pad shows finalText when the batch has no interim
\* result, and otherwise normalize(finalText + " " + interim raw text), with no
\* separator when finalText is empty.
C6_DisplayText ==
  [][last'.op = "onresult"
       => textOutput' = IF HasInterim(last'.batch)
                        THEN smartFormat(Joined(finalText', InterimText(last'.batch)))
                        ELSE finalText']_vars

\* C7: seeding sets finalText to normalize(text): from the pad's text when
\* recording starts, from the note's text when a note is sent to the pad.
C7_SeedNormalizes ==
  [][/\ last'.op = "start" => finalText' = smartFormat(textOutput)
     /\ last'.op = "send" => finalText' = smartFormat(notes[last'.item].text)]_vars

C9_EndRenormalizesOnly ==
  [][last'.op = "onend" => finalText' = smartFormat(finalText)]_vars

\* C10: a recognition error leaves finalText and the notes exactly as they were.
C10_ErrorKeepsText ==
  [][last'.op = "onerror" => (finalText' = finalText /\ notes' = notes)]_vars
\* the error came while an interim result was previewed, with a note held
C10_Witness ==
  /\ last.op = "onerror"
  /\ finalText # <<>>
  /\ textOutput # finalText
  /\ notes # <<>>

\* C11: a save while the pad's text is empty or white space only is rejected
\* (the "nothing to save" outcome) and changes nothing: the notes, their rendered
\* items, finalText and the pad are as before.
C11_EmptySaveRejected ==
  [][(last'.op \in {"save", "saveEmpty"} /\ Trim(textOutput) = <<>>)
       => /\ last'.op = "saveEmpty"
          /\ notes' = notes /\ rendered' = rendered
          /\ finalText' = finalText /\ textOutput' = textOutput]_vars
\* a save was rejected on a pad of white space only, with a note held and a
\* non-empty finalText
C11_Witness ==
  /\ last.op = "saveEmpty"
  /\ textOutput # <<>>
  /\ notes # <<>>
  /\ finalText # <<>>

\* C12: a successful save puts the new note, holding the pad's trimmed text, at
\* the head of notes and leaves the earlier notes behind it in their order
\* (so the list is most recently saved first), and every note held has a
\* non-empty text with no white space at either end.
C12_SaveAtHead ==
  [][/\ last'.op = "save"
          => /\ Len(notes') = Len(notes) + 1
             /\ Tail(notes') = notes
             /\ Head(notes').text = Trim(textOutput)
     /\ \A i \in 1..Len(notes') :
          notes'[i].text # <<>> /\ Trim(notes'[i].text) = notes'[i].text]_vars
\* a second note, with another text, was saved from a pad with white space
\* around the word: it is the head and the earlier note follows it
C12_Witness ==
  /\ last.op = "save"
  /\ Len(notes) = MaxNotes
  /\ textOutput = TyPadded
  /\ notes[1].text = <<"b">>
  /\ notes[Len(notes)].text = <<"a">>

\* the index the Delete handler of the rendered item k captured
DeleteIndex(k) == rendered[k].index
Without(ns, i) == SubSeq(ns, 1, i - 1) \o SubSeq(ns, i + 1, Len(ns))
\* C14: a note held is never changed: a save only adds a note in front of the
\* notes held, a delete only removes one of them, and every other handler
\* (result batches, clear, start, end, error, send-to-pad) leaves notes as they
\* are, text and createdAt included.
C14_NotesImmutable ==
  [][/\ last'.op = "save" => Tail(notes') = notes
     /\ last'.op = "delete" => \E i \in 1..Len(notes) : notes' = Without(notes, i)
     /\ last'.op \notin {"save", "delete"} => notes' = notes]_vars
\* two notes are held and a later result batch has left a transcript that
\* differs from both
C14_Witness ==
  /\ last.op = "onresult"
  /\ Len(notes) = MaxNotes
  /\ finalText # <<>>
  /\ \A i \in 1..Len(notes) : notes[i].text # finalText

\* C15: at a successful save the new note's text is the trimmed finalText, also
\* when the pad is showing the preview of an interim result.
C15_SaveSnapshotsFinalText ==
  [][last'.op = "save" => Head(notes').text = Trim(finalText)]_vars

\* C16: in the output of smartFormat no space or tab stands right before one of
\* , . ! ? and each , . ! ? is followed by white space, a line break or the end
\* of the text, also when marks or spoken marks are adjacent in the input.
C16_PunctuationSpacing ==
  fmt.stage = "once"
    => \A i \in 1..Len(fmt.out) :
         IsPunct(fmt.out[i])
           => /\ i = 1 \/ ~IsHSpace(fmt.out[i-1])
              /\ i = Len(fmt.out) \/ IsSpace(fmt.out[i+1])

\* C17: in the output of smartFormat the first character of the text, and the
\* first character after one of . ! ? and one or more white space characters,
\* is never a lower-case letter a-z.
C17_SentenceStartsUpper ==
  fmt.stage = "once"
    => /\ fmt.out # <<>> => ~IsLower(fmt.out[1])
       /\ \A j \in 1..Len(fmt.out) : ~SentenceStartAt(fmt.out, j)

\* the batch has a final result, and the trimmed text of each of its final
\* results is empty
OnlyEmptyFinals(batch) ==
  /\ \E i \in 1..Len(batch) : batch[i].isFinal
  /\ \A i \in 1..Len(batch) : batch[i].isFinal => Trim(batch[i].transcript) = <<>>
\* C18: a final result whose trimmed text is empty is not appended: finalText
\* after it is exactly finalText before it, whatever finalText was.
C18_EmptyFinalNoChange ==
  [][(last'.op = "onresult" /\ OnlyEmptyFinals(last'.batch))
       => finalText' = finalText]_vars

\* C19: while not listening (and the user types nothing into the pad) the pad
\* shows finalText: textOutput.value = finalText, after the end of recognition,
\* a recognition error, clear and send-to-pad in any order.
C19_PadShowsFinalText == ~isListening => textOutput = finalText

\* the handlers of the rendered items rs act on the notes ns they were built
\* for: each captured index is inside the bounds of ns and ns[index] is the
\* item's note
HandlersMatch(rs, ns) ==
  \A k \in 1..Len(rs) :
    /\ 0 <= rs[k].index /\ rs[k].index < Len(ns)
    /\ ns[rs[k].index + 1] = rs[k].note
\* C20: before and after every handler, each rendered item's Delete and
\* Send-to-pad handlers belong to the note at the captured index, which is
\* inside the bounds of notes; so a delete removes the note of the item clicked
\* and no other.
C20_HandlersMatchNotes ==
  [][/\ HandlersMatch(rendered, notes)
     /\ HandlersMatch(rendered', notes')
     /\ last'.op = "delete"
          => /\ notes[last'.item] = rendered[last'.item].note
             /\ notes' = Without(notes, last'.item)]_vars
\* the head of MaxNotes notes was deleted: the items left were rebuilt, and
\* the first now has index 0
C20_Witness ==
  /\ last.op = "delete"
  /\ last.item = 1
  /\ Len(rendered) = MaxNotes - 1
  /\ rendered[1].index = 0
  /\ rendered[1].note = notes[1]
====
